---- MODULE Spec2Model ----
(***************************************************************************)
(* Model of flax/nnx/nnx/bridge/wrappers.py: the bridge between Linen      *)
(* (immutable style) and NNX (stateful style) modules.                     *)
(*                                                                         *)
(*   SpecNNX   : one ToNNX adapter driven by lazy_init and plain calls     *)
(*   SpecLinen : one ToLinen adapter driven by Linen init / apply          *)
(*   SpecFn    : one Functional handle driven by init / apply              *)
(***************************************************************************)
EXTENDS Integers, Sequences, FiniteSets, TLC

VARIABLES
  linenModule,   \* ToNNX.module: the wrapped Linen module (its kind)
  bundleNames,   \* stream names of the construction-time bundle ("self") and of the caller's bundle ("ext")
  nnx,           \* ToNNX instance: attrs, linen_collections, initializing flags, stream counts
  lastOp,        \* "none" | "lazy_init" | "call": the last top-level operation on the adapter
  lastCall,      \* what the last ToNNX.__call__ did
  lastLazy,      \* what the last lazy_init did, while it is the last operation
  firstCallDone, \* some ToNNX.__call__ has been made on the instance
  drawn,         \* per bundle and stream, the values handed to the Linen apply so far
  linenCfg,      \* ToLinen fields: nnx_class, args, skip_rng
  scopeVars,     \* the Linen variable dict of the ToLinen module, threaded from call to call
  lastLinen,     \* what the last ToLinen.__call__ did
  handle,        \* a Functional handle: module_type, graphdef, args, kwargs
  lastFn         \* what the last Functional.init / Functional.apply did

nnxVars == <<linenModule, bundleNames, nnx, lastOp, lastCall, lastLazy, firstCallDone, drawn>>
linenVars == <<linenCfg, scopeVars, lastLinen>>
fnVars == <<handle, lastFn>>
allVars == <<nnxVars, linenVars, fnVars>>

-----------------------------------------------------------------------------
(* Bounds *)

ValMod == 2      \* leaf values and outputs are 0 .. ValMod-1
MaxCount == 2    \* a stream is drawn from at most MaxCount times

Values == 0 .. (ValMod - 1)
Inputs == {0, 1}              \* the sample inputs
NoOut == 0 - 1
EmptyFn == [n \in {} |-> 0]

-----------------------------------------------------------------------------
(* Dictionaries *)

DictPop(d, k) == [n \in (DOMAIN d) \ {k} |-> d[n]]
DictSet(d, k, v) == [n \in (DOMAIN d) \cup {k} |-> IF n = k THEN v ELSE d[n]]

-----------------------------------------------------------------------------
(* Variable Typing Utility: collection name <-> Variable type *)

Collections == {"params", "batch_stats", "intermediates"}

variable_type(col) ==
  CASE col = "params" -> "Param"
    [] col = "batch_stats" -> "BatchStat"
    [] col = "intermediates" -> "Intermediate"
    [] col = "cache" -> "Cache"

\* jax.tree.map(variable_type(col), tree): every leaf becomes a Variable of col's type
WrapTree(col, tree) == [n \in DOMAIN tree |-> [type |-> variable_type(col), value |-> tree[n]]]

\* jax.tree.map(lambda v: v.value, tree)
UnwrapTree(tree) == [n \in DOMAIN tree |-> tree[n].value]

-----------------------------------------------------------------------------
(* The wrapped Linen module: a pure init_with_output / apply pair *)

LinenModules == {"Identity", "Norm", "Probe"}

InitCols(m) ==
  CASE m = "Identity" -> {}
    [] m = "Norm" -> {"params", "batch_stats"}
    [] m = "Probe" -> {"params"}

Sows(m) == m = "Probe"

LeafName(col) ==
  CASE col = "params" -> "kernel"
    [] col = "batch_stats" -> "mean"
    [] col = "intermediates" -> "h"

LeafOr0(vars, col) == IF col \in DOMAIN vars THEN vars[col][LeafName(col)] ELSE 0

RngTerm(rngs) == IF "dropout" \in DOMAIN rngs THEN rngs["dropout"] ELSE 0

LinenOut(m, vars, x, rngs) ==
  IF m = "Identity" THEN (x + RngTerm(rngs)) % ValMod
  ELSE (LeafOr0(vars, "params") + LeafOr0(vars, "batch_stats") + x + RngTerm(rngs)) % ValMod

\* mutable: [req |-> BOOLEAN, cols |-> subset of Collections]; req is "mutable was passed"
NoMutable == [req |-> FALSE, cols |-> {}]
MutableArgs ==
  {NoMutable} \cup {[req |-> TRUE, cols |-> c] : c \in {{"batch_stats"}, {"batch_stats", "intermediates"}}}

InitLeaf(col, rngs, x) == IF col = "params" THEN (rngs["params"] + x) % ValMod ELSE 0

\* m.init_with_output(rngs, x, mutable=...) -> (out, variables)
LinenInitWithOutput(m, rngs, x, mutable) ==
  IF InitCols(m) # {} /\ "params" \notin DOMAIN rngs
  THEN [raised |-> "MissingRngError", y |-> NoOut, variables |-> EmptyFn]
  ELSE IF mutable.req /\ ~(InitCols(m) \subseteq mutable.cols)
  THEN [raised |-> "ImmutableCollectionError", y |-> NoOut, variables |-> EmptyFn]
  ELSE LET cols == InitCols(m) \cup
                   (IF Sows(m) /\ mutable.req /\ "intermediates" \in mutable.cols
                    THEN {"intermediates"} ELSE {})
           base == [c \in InitCols(m) |-> [n \in {LeafName(c)} |-> InitLeaf(c, rngs, x)]]
           y == LinenOut(m, base, x, EmptyFn)
       IN [raised |-> "none", y |-> y,
           variables |-> [c \in cols |-> [n \in {LeafName(c)} |->
                            IF c = "intermediates" THEN y ELSE base[c][n]]]]

\* m.apply(variables, x, rngs=..., mutable=...) -> out, or (out, updates) when mutable is passed
LinenApply(m, vars, x, rngs, mutable) ==
  IF ~(InitCols(m) \subseteq DOMAIN vars)
  THEN [raised |-> "ScopeCollectionNotFound", pair |-> FALSE, y |-> NoOut, updates |-> EmptyFn]
  ELSE LET y == LinenOut(m, vars, x, rngs)
           ucols == mutable.cols \cap
                    ((DOMAIN vars) \cup (IF Sows(m) THEN {"intermediates"} ELSE {}))
           upd(c) == [n \in {LeafName(c)} |->
                        CASE c = "intermediates" -> y
                          [] c = "batch_stats" /\ m = "Norm" -> (vars[c][n] + x + 1) % ValMod
                          [] OTHER -> vars[c][n]]
       IN [raised |-> "none", pair |-> mutable.req, y |-> y,
           updates |-> IF mutable.req THEN [c \in ucols |-> upd(c)] ELSE EmptyFn]

-----------------------------------------------------------------------------
(* Pseudo-random stream bundles (nnx.Rngs) *)

Bundles == {"self", "ext"}
StreamNames == {"default", "params", "dropout"}

\* the key each stream was constructed with
StreamKey(b, n) ==
  CASE b = "self" /\ n = "default" -> 1
    [] b = "self" /\ n = "params" -> 2
    [] b = "self" /\ n = "dropout" -> 3
    [] b = "ext" /\ n = "default" -> 4
    [] b = "ext" /\ n = "params" -> 5
    [] b = "ext" /\ n = "dropout" -> 6

\* stream(): the value drawn from key at the stream's current count
FoldIn(key, count) == key * 10 + count

-----------------------------------------------------------------------------
(* The ownership graph of the adapter, as graph.iter_graph walks it.       *)
(* A node is <<kind, name>>; Module, Rngs and RngStream nodes are Objects  *)
(* (they carry _object__state); Variables and static values are not.       *)

Parent == <<"module", "parent">>   \* a user Module that owns the adapter and shares its Rngs
Self == <<"module", "self">>       \* the ToNNX instance
RngsNode == <<"rngs", "self">>     \* ToNNX.rngs

IsObject(node) == node[1] \in {"module", "rngs", "stream"}

Children(st, node) ==
  CASE node = Parent ->
         {Self} \cup (IF bundleNames["self"] # {} THEN {RngsNode} ELSE {})
    [] node = Self ->
         {<<"static", "module">>}
           \cup (IF bundleNames["self"] # {} THEN {RngsNode} ELSE {})
           \cup {<<"var", c>> : c \in DOMAIN st.attrs}
    [] node = RngsNode -> {<<"stream", n>> : n \in bundleNames["self"]}
    [] OTHER -> {}

\* graph.iter_graph(root): depth-first, each node yielded once however many owners it has
RECURSIVE IterGraphFrom(_, _, _)
IterGraphFrom(st, stack, visited) ==
  IF stack = <<>> THEN <<>>
  ELSE LET node == Head(stack) IN
       IF node \in visited THEN IterGraphFrom(st, Tail(stack), visited)
       ELSE LET RECURSIVE AsSeq(_)
                AsSeq(S) == IF S = {} THEN <<>>
                            ELSE LET e == CHOOSE e \in S : TRUE IN <<e>> \o AsSeq(S \ {e})
            IN <<node>> \o IterGraphFrom(st, AsSeq(Children(st, node)) \o Tail(stack),
                                         visited \cup {node})

iter_graph(st, root) == IterGraphFrom(st, <<root>>, {})

\* _set_initializing(module, initializing); flags is the set of Objects whose flag is true
RECURSIVE SetFlags(_, _, _)
SetFlags(flags, nodes, initializing) ==
  IF nodes = <<>> THEN flags
  ELSE LET value == Head(nodes)
           next == IF IsObject(value)
                   THEN (IF initializing THEN flags \cup {value} ELSE flags \ {value})
                   ELSE flags
       IN SetFlags(next, Tail(nodes), initializing)

\* faulty variant: only the root's own flag is set, its graph is not walked
_set_initializing_root_only(st, module, initializing) ==
  [st EXCEPT !.initializing = SetFlags(st.initializing, <<module>>, initializing)]

_set_initializing(st, module, initializing) ==
  [st EXCEPT !.initializing = SetFlags(st.initializing, iter_graph(st, module), initializing)]

-----------------------------------------------------------------------------
(* ToNNX.__call__ *)

CallArgs == [x : Inputs, rngs : {"none", "ext"}, mutable : MutableArgs]

\* `if not rngs: rngs = self.rngs` -- a bundle without streams is falsy, like None
UsedBundle(a) == IF a.rngs # "none" /\ bundleNames[a.rngs] # {} THEN a.rngs ELSE "self"

\* {name: stream.key.raw_value for name, stream in rngs.items()} if rngs else {}
StreamKeys(b) == [n \in bundleNames[b] |-> StreamKey(b, n)]

\* faulty variant: "default" is copied to "params" and kept
RenameDefaultKeep(_rngs) ==
  IF "params" \notin DOMAIN _rngs /\ "default" \in DOMAIN _rngs
  THEN DictSet(_rngs, "params", _rngs["default"])
  ELSE _rngs

\* rename default to params
RenameDefault(_rngs) ==
  IF "params" \notin DOMAIN _rngs /\ "default" \in DOMAIN _rngs
  THEN DictSet(DictPop(_rngs, "default"), "params", _rngs["default"])
  ELSE _rngs

\* faulty variant: the collections are stored but their names are not recorded
StoreCollectionsUnrecorded(st, variables, todo) ==
  [st EXCEPT !.attrs = [c \in (DOMAIN @) \cup todo |->
                          IF c \in todo THEN WrapTree(c, variables[c]) ELSE @[c]]]

\* for col, tree in tree_map_with_path(nn_var_to_nnx_state, variables).items():
\*   self._setattr(col, tree); self.linen_collections.add(col)
RECURSIVE StoreCollections(_, _, _)
StoreCollections(st, variables, todo) ==
  IF todo = {} THEN st
  ELSE LET col == CHOOSE c \in todo : TRUE
           st1 == [st EXCEPT !.attrs = DictSet(@, col, WrapTree(col, variables[col])),
                             !.linen_collections = @ \cup {col}]
       IN StoreCollections(st1, variables, todo \ {col})

\* faulty variant: a failure of init_with_output is swallowed
InitBranchSwallow(st, a) ==
  LET b == UsedBundle(a)
      _rngs == RenameDefault(StreamKeys(b))
      res == LinenInitWithOutput(linenModule, _rngs, a.x, a.mutable)
      vs == IF res.raised = "none" THEN res.variables ELSE EmptyFn
  IN [st |-> StoreCollections(st, vs, DOMAIN vs),
      path |-> "init", bundle |-> b, passedRngs |-> _rngs, passedVars |-> EmptyFn,
      raised |-> "none", pair |-> FALSE, y |-> res.y,
      updates |-> EmptyFn, variables |-> vs]

\* the initializing branch
InitBranch(st, a) ==
  LET b == UsedBundle(a)
      _rngs == RenameDefault(StreamKeys(b))
      res == LinenInitWithOutput(linenModule, _rngs, a.x, a.mutable)
  IN [st |-> IF res.raised = "none"
             THEN StoreCollections(st, res.variables, DOMAIN res.variables) ELSE st,
      path |-> "init", bundle |-> b, passedRngs |-> _rngs, passedVars |-> EmptyFn,
      raised |-> res.raised, pair |-> FALSE, y |-> res.y,
      updates |-> EmptyFn, variables |-> res.variables]

\* faulty variant: the streams are read without being advanced
AdvanceNone(st, b) == st

\* {name: stream() for name, stream in rngs.items()} if rngs else {}
DrawAll(st, b) == [n \in bundleNames[b] |-> FoldIn(StreamKey(b, n), st.counts[b][n])]
Advance(st, b) == [st EXCEPT !.counts[b] = [n \in bundleNames[b] |-> @[n] + 1]]

\* {col: jax.tree.map(lambda v: v.value, getattr(self, col)) for col in self.linen_collections}
StoredVariables(st) == [col \in st.linen_collections |-> UnwrapTree(st.attrs[col])]

\* the already-initialized branch
ApplyBranch(st, a) ==
  LET b == UsedBundle(a)
      variables == StoredVariables(st)
      _rngs == DrawAll(st, b)
      res == LinenApply(linenModule, variables, a.x, _rngs, a.mutable)
  IN [st |-> Advance(st, b),
      path |-> "apply", bundle |-> b, passedRngs |-> _rngs, passedVars |-> variables,
      raised |-> res.raised, pair |-> res.pair, y |-> res.y,
      updates |-> res.updates, variables |-> EmptyFn]

\* faulty variant: the updates are split off but not written back
WriteBackSkip(st, updates, todo) == st

\* for collection, value in updates.items(): self._setattr(collection, tree.map(variable_type(collection), value))
RECURSIVE WriteBack(_, _, _)
WriteBack(st, updates, todo) ==
  IF todo = {} THEN st
  ELSE LET collection == CHOOSE c \in todo : TRUE
       IN WriteBack([st EXCEPT !.attrs = DictSet(@, collection, WrapTree(collection, updates[collection]))],
                    updates, todo \ {collection})

\* Split out the updates if `mutable` is passed into the Flax module
SplitUpdates(r, a) ==
  IF r.raised # "none" THEN [r EXCEPT !.y = NoOut]
  ELSE IF a.mutable.req
       THEN IF r.pair
            THEN [r EXCEPT !.st = WriteBack(r.st, r.updates, DOMAIN r.updates)]
            ELSE [r EXCEPT !.raised = "UnpackError", !.y = NoOut]   \* `out, updates = out` on a non-pair
       ELSE r

\* faulty variant: the initializing flag is never consulted
ToNNXCallNeverInit(st, a) == SplitUpdates(ApplyBranch(st, a), a)

ToNNXCall(st, a) ==
  SplitUpdates(IF Self \in st.initializing THEN InitBranch(st, a) ELSE ApplyBranch(st, a), a)

-----------------------------------------------------------------------------
(* lazy_init *)

FnValue(root) == [kind |-> "fn", val |-> IF root = Self THEN 0 ELSE 1]
OutValue(y) == [kind |-> "out", val |-> y]
NoValue == [kind |-> "none", val |-> 0]

\* faulty variant: the flag is reset after the call instead of in a finally block
FinallyOnSuccessOnly(st, module, raised) ==
  IF raised = "none" THEN _set_initializing(st, module, FALSE) ELSE st

\* finally: _set_initializing(module, False)
Finally(st, module, raised) == _set_initializing(st, module, FALSE)

\* faulty variant: the value of the call is returned
LazyInitReturnOut(fn, y) == OutValue(y)

\* `_ = fn(*args, **kwargs)` ... `return fn`
LazyInitReturn(fn, y) == FnValue(fn)

\* lazy_init(fn, *args, **kwargs), fn being the Module `root` (or a bound method of it)
\* whose call reaches the adapter
lazy_init(st, root, a) ==
  LET st1 == _set_initializing(st, root, TRUE)
      r == ToNNXCall(st1, a)
      st2 == Finally(r.st, root, r.raised)
  IN [st |-> st2, call |-> r, during |-> st1, raised |-> r.raised,
      ret |-> IF r.raised = "none" THEN LazyInitReturn(root, r.y) ELSE NoValue]

-----------------------------------------------------------------------------
(* SpecNNX: the adapter and its callers *)

SelfNameSets == {{}, {"default"}, {"default", "params"}}
ExtNameSets == {{"default", "dropout"}}

NoCall ==
  [a |-> [x |-> 0, rngs |-> "none", mutable |-> NoMutable], viaLazy |-> FALSE, first |-> FALSE,
   path |-> "none", bundle |-> "self", passedRngs |-> EmptyFn, passedVars |-> EmptyFn,
   raised |-> "none", out |-> NoOut, updates |-> EmptyFn,
   afterInit |-> FALSE, initVars |-> EmptyFn]

NoLazy ==
  [root |-> Self, x |-> 0, raised |-> "none", ret |-> NoValue, callOut |-> NoOut,
   stored |-> FALSE, variables |-> EmptyFn, during |-> {}, walk |-> <<>>]

\* the call follows a lazy_init that returned normally and was given the same sample input
AfterInit(a) == lastOp = "lazy_init" /\ lastLazy.raised = "none" /\ lastLazy.x = a.x

CallRecord(r, a, viaLazy) ==
  [a |-> a, viaLazy |-> viaLazy, first |-> ~firstCallDone,
   path |-> r.path, bundle |-> r.bundle, passedRngs |-> r.passedRngs,
   passedVars |-> r.passedVars, raised |-> r.raised, out |-> r.y, updates |-> r.updates,
   afterInit |-> (~viaLazy /\ AfterInit(a)),
   initVars |-> IF ~viaLazy /\ AfterInit(a) THEN lastLazy.variables ELSE EmptyFn]

NoLinen ==
  [op |-> "none", mutable |-> {}, x |-> 0, raised |-> "none", out |-> NoOut,
   merged |-> FALSE, invoked |-> FALSE, captured |-> [cls |-> "none", vars |-> EmptyFn],
   wrote |-> FALSE, rngs |-> EmptyFn, rebuilt |-> [cls |-> "none", vars |-> EmptyFn],
   ran |-> [cls |-> "none", vars |-> EmptyFn]]

NoGraphDef == [cls |-> "none", types |-> EmptyFn]     \* graphdef = None
NoState == EmptyFn
NoFn ==
  [op |-> "none", raised |-> "none", rngs |-> EmptyFn, state |-> NoState, x |-> 0,
   out |-> NoOut, returned |-> NoState]

\* functional(cls)(*args, **kwargs): Functional(cls, None, args, kwargs)
functional(cls, args, kwargs) ==
  [module_type |-> cls, graphdef |-> NoGraphDef, args |-> args, kwargs |-> kwargs]

\* the Functional handle when it is not under study
FnIdle ==
  /\ handle = functional("Linear", 0, EmptyFn)
  /\ lastFn = NoFn

\* the ToLinen adapter before any call, and when it is not the adapter under study
LinenIdle ==
  /\ linenCfg = [nnx_class |-> "Linear", args |-> 1, skip_rng |-> FALSE]
  /\ scopeVars = EmptyFn
  /\ lastLinen = NoLinen

\* ToNNX.__init__
NNXInit ==
  /\ linenModule \in LinenModules
  /\ bundleNames \in [self : SelfNameSets, ext : ExtNameSets]
  /\ nnx = [attrs |-> EmptyFn, linen_collections |-> {}, initializing |-> {},
            counts |-> [b \in Bundles |-> [n \in bundleNames[b] |-> 0]]]
  /\ lastOp = "none"
  /\ lastCall = NoCall
  /\ lastLazy = NoLazy
  /\ firstCallDone = FALSE
  /\ drawn = [b \in Bundles |-> [n \in bundleNames[b] |-> {}]]

\* the streams the call would draw from still have draws left
CanDraw(st, a) ==
  \A n \in bundleNames[UsedBundle(a)] : st.counts[UsedBundle(a)][n] < MaxCount

\* the values a call on the apply path handed to the Linen apply, added to those so far
Drawn(d, r) ==
  IF r.path = "apply"
  THEN [d EXCEPT ![r.bundle] = [n \in DOMAIN @ |-> @[n] \cup {r.passedRngs[n]}]]
  ELSE d

\* model = ToNNX(m, rngs).lazy_init(x)   /   nnx.bridge.lazy_init(parent, x)
LazyInit(root, a) ==
  /\ \E res \in {lazy_init(nnx, root, a)} :
       /\ nnx' = res.st
       /\ lastCall' = CallRecord(res.call, a, TRUE)
       /\ lastLazy' = [root |-> root, x |-> a.x, raised |-> res.raised, ret |-> res.ret,
                       callOut |-> res.call.y,
                       stored |-> (res.call.path = "init" /\ res.call.raised \in {"none", "UnpackError"}),
                       variables |-> res.call.variables,
                       during |-> res.during.initializing,
                       walk |-> SelectSeq(iter_graph(nnx, root), IsObject)]
       /\ drawn' = Drawn(drawn, res.call)
  /\ lastOp' = "lazy_init"
  /\ firstCallDone' = TRUE
  /\ UNCHANGED <<linenModule, bundleNames, linenVars, fnVars>>

\* y = model(x, rngs=..., mutable=...)
PlainCall(a) ==
  /\ CanDraw(nnx, a)
  /\ \E r \in {ToNNXCall(nnx, a)} :
       /\ nnx' = r.st
       /\ lastCall' = CallRecord(r, a, FALSE)
       /\ drawn' = Drawn(drawn, r)
  /\ lastLazy' = NoLazy
  /\ lastOp' = "call"
  /\ firstCallDone' = TRUE
  /\ UNCHANGED <<linenModule, bundleNames, linenVars, fnVars>>

NNXNext ==
  \/ \E root \in {Self, Parent}, a \in CallArgs : LazyInit(root, a)
  \/ \E a \in CallArgs : PlainCall(a)

InitSpecNNX == NNXInit /\ LinenIdle /\ FnIdle
SpecNNX == InitSpecNNX /\ [][NNXNext]_allVars

-----------------------------------------------------------------------------
(* Graph/State model of the stateful (NNX) modules that ToLinen wraps.     *)
(* A module is [cls, vars]: its class and its Variables by attribute name. *)

NNXClasses == {"Linear", "BatchNorm", "Cache"}
RngClasses == {"Dropout"}       \* classes whose instances keep a pseudo-random stream
LinenCols == {"nnx", "params", "batch_stats", "cache", "rng_state"}
VariableTypes == {"Param", "BatchStat", "Cache", "RngState"}
StateCols == LinenCols \ {"nnx"}

variable_type_name(typ) ==
  CASE typ = "Param" -> "params"
    [] typ = "BatchStat" -> "batch_stats"
    [] typ = "Cache" -> "cache"
    [] typ = "RngState" -> "rng_state"

TypeRank(typ) ==
  CASE typ = "Param" -> 1
    [] typ = "BatchStat" -> 2
    [] typ = "Cache" -> 3
    [] typ = "RngState" -> 4

\* variableslib.sort_variable_types: the canonical order of Variable types
RECURSIVE sort_variable_types(_)
sort_variable_types(types) ==
  IF types = {} THEN <<>>
  ELSE LET first == CHOOSE t \in types : \A u \in types : TypeRank(t) <= TypeRank(u)
       IN <<first>> \o sort_variable_types(types \ {first})

NoModule == [cls |-> "none", vars |-> EmptyFn]

\* whether the class's constructor takes rngs: required by Linear, Cache and Dropout,
\* optional for BatchNorm
RngsRequired(cls) == cls \in {"Linear", "Cache", "Dropout"}

\* the stream the class draws its first value from
NeededStream(cls) == IF cls = "Dropout" THEN "dropout" ELSE "params"

\* nnx_class(*args, **module_kwargs); args offsets the initial kernel; rngs is the stream mapping of nnx.Rngs(**...), or
\* absent (hasRngs false) when skip_rng is set
Construct(cls, args, hasRngs, rngs) ==
  IF RngsRequired(cls) /\ ~hasRngs
  THEN [raised |-> "TypeError", module |-> NoModule]
  ELSE IF RngsRequired(cls) /\ NeededStream(cls) \notin DOMAIN rngs
  THEN [raised |-> "MissingRngError", module |-> NoModule]
  ELSE [raised |-> "none",
        module |-> [cls |-> cls,
                    vars |-> CASE cls = "Linear" ->
                                    [n \in {"kernel"} |-> [type |-> "Param", value |-> (rngs["params"] + args) % ValMod]]
                               [] cls = "Cache" ->
                                    [n \in {"kernel"} |-> [type |-> "Param", value |-> (rngs["params"] + args) % ValMod]]
                               [] cls = "BatchNorm" ->
                                    [n \in {"scale", "mean"} |->
                                       IF n = "scale" THEN [type |-> "Param", value |-> 1]
                                       ELSE [type |-> "BatchStat", value |-> 0]]
                               [] cls = "Dropout" ->      \* keeps its "dropout" stream: key and count
                                    [n \in {"key", "count"} |->
                                       IF n = "key" THEN [type |-> "RngState", value |-> rngs["dropout"]]
                                       ELSE [type |-> "RngState", value |-> 0]]]]

\* module(*args, **kwargs): the output and the module as the call leaves it
ModuleCall(module, x) ==
  CASE module.cls = "Linear" ->
         [module |-> module, out |-> (module.vars["kernel"].value + x) % ValMod]
    [] module.cls = "BatchNorm" ->
         LET mean == (module.vars["mean"].value + x + 1) % ValMod
         IN [module |-> [module EXCEPT !.vars["mean"].value = mean],
             out |-> (module.vars["scale"].value + mean) % ValMod]
    [] module.cls = "Cache" ->
         LET out == (module.vars["kernel"].value + x) % ValMod
             vs == module.vars
         IN [out |-> out,
             module |-> [module EXCEPT !.vars =
               IF "cache" \notin DOMAIN vs
               THEN DictSet(vs, "cache", [type |-> "Cache", value |-> x])   \* self.cache = Cache(x)
               ELSE IF x = 0 THEN DictPop(vs, "cache")                      \* del self.cache
               ELSE [vs EXCEPT !["cache"].value = (@ + x) % ValMod]]]
    [] module.cls = "Dropout" ->        \* one draw from the stream the module keeps
         [module |-> [module EXCEPT !.vars["count"].value = @ + 1],
          out |-> (x + FoldIn(module.vars["key"].value, module.vars["count"].value)) % ValMod]

\* the names of the pseudo-random streams a module keeps
ModuleStreams(module) == IF module.cls = "Dropout" THEN {"dropout"} ELSE {}

\* nnx.reseed(module, **stream_keys): every stream of the module named in stream_keys
\* restarts from the given key; a stream that is not named keeps its key and count
reseed(module, stream_keys) ==
  IF ModuleStreams(module) \cap (DOMAIN stream_keys) = {} THEN module
  ELSE [module EXCEPT !.vars["key"].value = stream_keys["dropout"],
                      !.vars["count"].value = 0]

\* nnx.split(module) -> (graphdef, state)
split(module) ==
  [gdef |-> [cls |-> module.cls, types |-> [n \in DOMAIN module.vars |-> module.vars[n].type]],
   state |-> module.vars]

\* one of the states of nnx.split(module, *types): the Variables of type typ
StateOfType(module, typ) ==
  [n \in {k \in DOMAIN module.vars : module.vars[k].type = typ} |-> module.vars[n]]

\* nnx.merge(gdef, state): the module gdef describes, each Variable taking its value from
\* state; a state without a value for a Variable of gdef is rejected
merge(gdef, state) ==
  IF ~((DOMAIN gdef.types) \subseteq (DOMAIN state))
  THEN [raised |-> "MergeMissingKey", module |-> NoModule]
  ELSE [raised |-> "none",
        module |-> [cls |-> gdef.cls,
                    vars |-> [n \in DOMAIN gdef.types |->
                                [type |-> gdef.types[n], value |-> state[n].value]]]]

-----------------------------------------------------------------------------
(* ToLinen *)

\* self.put_variable(col, name, value)
put_variable(vs, col, name, value) ==
  IF col \in DOMAIN vs THEN [vs EXCEPT ![col] = DictSet(@, name, value)]
  ELSE DictSet(vs, col, [n \in {name} |-> value])

\* faulty variant: a stored Variable is accumulated into (as sow does) instead of overwritten
RECURSIVE PutAllAccumulate(_, _, _, _)
PutAllAccumulate(vs, collection, state, todo) ==
  IF todo = {} THEN vs
  ELSE LET k == CHOOSE n \in todo : TRUE
           v == IF collection \in DOMAIN vs /\ k \in DOMAIN vs[collection]
                THEN [state[k] EXCEPT !.value = (@ + vs[collection][k].value + 1) % ValMod]
                ELSE state[k]
       IN PutAllAccumulate(put_variable(vs, collection, k, v), collection, state, todo \ {k})

\* for k, v in state.raw_mapping.items(): self.put_variable(collection, k, v)
RECURSIVE PutAll(_, _, _, _)
PutAll(vs, collection, state, todo) ==
  IF todo = {} THEN vs
  ELSE LET k == CHOOSE n \in todo : TRUE
       IN PutAll(put_variable(vs, collection, k, state[k]), collection, state, todo \ {k})

\* for typ, state in zip(types, state_by_types): ... if self.is_mutable_collection(collection)
RECURSIVE PutByTypes(_, _, _, _)
PutByTypes(vs, mutable, module, types) ==
  IF types = <<>> THEN vs
  ELSE LET typ == Head(types)
           state == StateOfType(module, typ)
           collection == variable_type_name(typ)
           vs1 == IF collection \in mutable THEN PutAll(vs, collection, state, DOMAIN state) ELSE vs
       IN PutByTypes(vs1, mutable, module, Tail(types))

\* faulty variant: only the first Variable type is written to its collection
update_variables_first_type(vs, mutable, module) ==
  LET s == split(module)
      vs1 == IF "nnx" \in mutable THEN put_variable(vs, "nnx", "graphdef", s.gdef) ELSE vs
      types == sort_variable_types({s.state[n].type : n \in DOMAIN s.state})
  IN PutByTypes(vs1, mutable, module, IF types = <<>> THEN types ELSE <<Head(types)>>)

\* faulty variant: is_mutable_collection is not consulted
update_variables_unguarded(vs, mutable, module) ==
  LET s == split(module)
      vs1 == put_variable(vs, "nnx", "graphdef", s.gdef)
      types == sort_variable_types({s.state[n].type : n \in DOMAIN s.state})
  IN PutByTypes(vs1, LinenCols, module, types)

\* ToLinen.update_variables(module), in a call whose mutable collections are `mutable`
update_variables(vs, mutable, module) ==
  LET s == split(module)
      vs1 == IF "nnx" \in mutable THEN put_variable(vs, "nnx", "graphdef", s.gdef) ELSE vs
      types == sort_variable_types({s.state[n].type : n \in DOMAIN s.state})
  IN PutByTypes(vs1, mutable, module, types)

\* linen_rngs_dict(self): one key split off every active rng of the scope
linen_rngs_dict(rngs) == [name \in DOMAIN rngs |-> FoldIn(rngs[name], 0)]

\* the init codepath
ToLinenInit(cfg, vs, mutable, rngs, x) ==
  LET c == Construct(cfg.nnx_class, cfg.args, ~cfg.skip_rng, linen_rngs_dict(rngs))
  IN IF c.raised # "none"
     THEN [vars |-> vs, raised |-> c.raised, out |-> NoOut, merged |-> FALSE, invoked |-> FALSE,
           captured |-> NoModule, wrote |-> FALSE,
           rebuilt |-> NoModule, ran |-> NoModule]
     ELSE [vars |-> update_variables(vs, mutable, c.module), raised |-> "none",
           out |-> ModuleCall(c.module, x).out, merged |-> FALSE, invoked |-> TRUE,
           captured |-> c.module, wrote |-> TRUE, rebuilt |-> NoModule, ran |-> c.module]

\* self.get_variable('nnx', 'graphdef'): MissingGraphDefError when nothing is stored
get_graphdef(vs) ==
  IF "nnx" \in DOMAIN vs /\ "graphdef" \in DOMAIN vs["nnx"]
  THEN [raised |-> "none", gdef |-> vs["nnx"]["graphdef"]]
  ELSE [raised |-> "MissingGraphDefError", gdef |-> [cls |-> "none", types |-> EmptyFn]]

\* nnx.GraphState.merge(*[State(state) for col, state in self.variables.items() if col != 'nnx'])
CombinedState(vs) ==
  LET cols == (DOMAIN vs) \ {"nnx"}
  IN [n \in UNION {DOMAIN vs[c] : c \in cols} |->
        vs[CHOOSE c \in cols : n \in DOMAIN vs[c]][n]]

\* faulty variant: without a stored graph definition the module is constructed afresh
ToLinenApplyFallback(cfg, vs, mutable, rngs, x) ==
  LET g == get_graphdef(vs)
      m == merge(g.gdef, CombinedState(vs))
      module == reseed(m.module, linen_rngs_dict(rngs))   \* reseed with keys from linen apply call
      r == ModuleCall(module, x)
  IN IF g.raised # "none"
     THEN ToLinenInit(cfg, vs, mutable, rngs, x)
     ELSE IF m.raised # "none"
     THEN [vars |-> vs, raised |-> m.raised, out |-> NoOut, merged |-> FALSE, invoked |-> FALSE,
           captured |-> NoModule, wrote |-> FALSE,
           rebuilt |-> NoModule, ran |-> NoModule]
     ELSE [vars |-> update_variables(vs, mutable, r.module), raised |-> "none", out |-> r.out,
           merged |-> TRUE, invoked |-> TRUE, captured |-> r.module, wrote |-> TRUE,
           rebuilt |-> m.module, ran |-> module]

\* faulty variant: the module is captured before it is invoked, as on the init codepath
ToLinenApplyUpdateFirst(cfg, vs, mutable, rngs, x) ==
  LET g == get_graphdef(vs)
      m == merge(g.gdef, CombinedState(vs))
      module == reseed(m.module, linen_rngs_dict(rngs))
      r == ModuleCall(module, x)
  IN IF g.raised # "none"
     THEN [vars |-> vs, raised |-> g.raised, out |-> NoOut, merged |-> FALSE, invoked |-> FALSE,
           captured |-> NoModule, wrote |-> FALSE, rebuilt |-> NoModule, ran |-> NoModule]
     ELSE IF m.raised # "none"
     THEN [vars |-> vs, raised |-> m.raised, out |-> NoOut, merged |-> FALSE, invoked |-> FALSE,
           captured |-> NoModule, wrote |-> FALSE, rebuilt |-> NoModule, ran |-> NoModule]
     ELSE [vars |-> update_variables(vs, mutable, module), raised |-> "none", out |-> r.out,
           merged |-> TRUE, invoked |-> TRUE, captured |-> module, wrote |-> TRUE,
           rebuilt |-> m.module, ran |-> module]

\* the apply codepath
ToLinenApply(cfg, vs, mutable, rngs, x) ==
  LET g == get_graphdef(vs)
      m == merge(g.gdef, CombinedState(vs))
      module == reseed(m.module, linen_rngs_dict(rngs))   \* reseed with keys from linen apply call
      r == ModuleCall(module, x)
  IN IF g.raised # "none"
     THEN [vars |-> vs, raised |-> g.raised, out |-> NoOut, merged |-> FALSE, invoked |-> FALSE,
           captured |-> NoModule, wrote |-> FALSE,
           rebuilt |-> NoModule, ran |-> NoModule]
     ELSE IF m.raised # "none"
     THEN [vars |-> vs, raised |-> m.raised, out |-> NoOut, merged |-> FALSE, invoked |-> FALSE,
           captured |-> NoModule, wrote |-> FALSE,
           rebuilt |-> NoModule, ran |-> NoModule]
     ELSE [vars |-> update_variables(vs, mutable, r.module), raised |-> "none", out |-> r.out,
           merged |-> TRUE, invoked |-> TRUE, captured |-> r.module, wrote |-> TRUE,
           rebuilt |-> m.module, ran |-> module]

\* ToLinen.__call__
ToLinenCall(cfg, vs, initializing, mutable, rngs, x) ==
  IF initializing THEN ToLinenInit(cfg, vs, mutable, rngs, x)
  ELSE ToLinenApply(cfg, vs, mutable, rngs, x)

-----------------------------------------------------------------------------
(* SpecLinen: the ToLinen adapter and the Linen caller that threads its variables *)

MaxKey == 2      \* the caller's rng keys are 1 .. MaxKey

\* rngs given to init: none, a "params" key, or a "params" and a "dropout" key
InitRngs ==
  {EmptyFn} \cup {[n \in {"params"} |-> k] : k \in 1 .. MaxKey}
            \cup {[n \in {"params", "dropout"} |-> IF n = "params" THEN 1 ELSE 2]}
\* rngs given to apply: none, or a "dropout" key
ApplyRngs == {EmptyFn} \cup {[n \in {"dropout"} |-> k] : k \in 1 .. MaxKey}
InitMutable == {LinenCols, StateCols}
ApplyMutable == {{}, {"nnx"}, {"batch_stats", "cache"}, StateCols, LinenCols}

LinenInit ==
  /\ linenCfg \in [nnx_class : NNXClasses \cup RngClasses, args : {1}, skip_rng : BOOLEAN]
  /\ scopeVars = EmptyFn
  /\ lastLinen = NoLinen

LinenRecord(op, r, mutable, rngs, x) ==
  [op |-> op, mutable |-> mutable, x |-> x, raised |-> r.raised, out |-> r.out,
   merged |-> r.merged, invoked |-> r.invoked, captured |-> r.captured, wrote |-> r.wrote,
   rngs |-> rngs, rebuilt |-> r.rebuilt, ran |-> r.ran]

\* variables = model.init(rngs, x, mutable=...): starts from an empty variable dict
LinenInitCall(mutable, rngs, x) ==
  /\ \E r \in {ToLinenCall(linenCfg, EmptyFn, TRUE, mutable, rngs, x)} :
       /\ scopeVars' = IF r.raised = "none" THEN r.vars ELSE scopeVars
       /\ lastLinen' = LinenRecord("init", r, mutable, rngs, x)
  /\ UNCHANGED <<linenCfg, nnxVars, fnVars>>

\* the stored stream, if any, has draws left
CanRun(vs) ==
  ("rng_state" \in DOMAIN vs /\ "count" \in DOMAIN vs["rng_state"]) =>
     vs["rng_state"]["count"].value < MaxCount

\* y, updates = model.apply(variables, x, rngs=..., mutable=...); the caller keeps the updates
LinenApplyCall(mutable, rngs, x) ==
  /\ CanRun(scopeVars)
  /\ \E r \in {ToLinenCall(linenCfg, scopeVars, FALSE, mutable, rngs, x)} :
       /\ scopeVars' = IF r.raised = "none" THEN r.vars ELSE scopeVars
       /\ lastLinen' = LinenRecord("apply", r, mutable, rngs, x)
  /\ UNCHANGED <<linenCfg, nnxVars, fnVars>>

LinenNext ==
  \/ \E mutable \in InitMutable, rngs \in InitRngs, x \in Inputs : LinenInitCall(mutable, rngs, x)
  \/ \E mutable \in ApplyMutable, rngs \in ApplyRngs, x \in Inputs : LinenApplyCall(mutable, rngs, x)

\* the ToNNX adapter when it is not the adapter under study
NNXIdle ==
  /\ linenModule = "Identity"
  /\ bundleNames = [self |-> {}, ext |-> {"default", "dropout"}]
  /\ nnx = [attrs |-> EmptyFn, linen_collections |-> {}, initializing |-> {},
            counts |-> [b \in Bundles |-> [n \in bundleNames[b] |-> 0]]]
  /\ lastOp = "none"
  /\ lastCall = NoCall
  /\ lastLazy = NoLazy
  /\ firstCallDone = FALSE
  /\ drawn = [b \in Bundles |-> [n \in bundleNames[b] |-> {}]]

InitSpecLinen == LinenInit /\ NNXIdle /\ FnIdle
SpecLinen == InitSpecLinen /\ [][LinenNext]_allVars

-----------------------------------------------------------------------------
(* Functional *)

\* faulty variant: the graph definition is returned to the caller but not kept on the handle
FunctionalInitForget(h, hasRngs, rngs) ==
  LET c == Construct(h.module_type, h.args, hasRngs, rngs)
      s == split(c.module)
  IN IF c.raised # "none" THEN [handle |-> h, raised |-> c.raised, state |-> NoState]
     ELSE [handle |-> h, raised |-> "none", state |-> s.state]

\* Functional.init(rngs=None): rngs is the stream mapping given, hasRngs whether one was given
FunctionalInit(h, hasRngs, rngs) ==
  LET c == Construct(h.module_type, h.args, hasRngs, rngs)     \* rngs injected only if supplied
      s == split(c.module)
  IN IF c.raised # "none" THEN [handle |-> h, raised |-> c.raised, state |-> NoState]
     ELSE [handle |-> [h EXCEPT !.graphdef = s.gdef], raised |-> "none", state |-> s.state]

\* GraphDef.apply(state): the module merged from the graph definition and the state is invoked
GraphDefApply(gdef, state, x) ==
  LET m == merge(gdef, state)
  IN IF m.raised # "none" THEN [raised |-> m.raised, out |-> NoOut]
     ELSE [raised |-> "none", out |-> ModuleCall(m.module, x).out]

\* faulty variant: apply on a fresh handle initializes it instead of failing
FunctionalApplyAutoInit(h, state, x) ==
  IF h.graphdef = NoGraphDef
  THEN LET i == FunctionalInit(h, FALSE, EmptyFn)
       IN [handle |-> i.handle, raised |-> i.raised, out |-> NoOut]
  ELSE LET r == GraphDefApply(h.graphdef, state, x)
       IN [handle |-> h, raised |-> r.raised, out |-> r.out]

\* Functional.apply(*states)
FunctionalApply(h, state, x) ==
  IF h.graphdef = NoGraphDef                       \* assert self.graphdef is not None
  THEN [handle |-> h, raised |-> "NotInitializedError", out |-> NoOut]
  ELSE LET r == GraphDefApply(h.graphdef, state, x)
       IN [handle |-> h, raised |-> r.raised, out |-> r.out]

-----------------------------------------------------------------------------
(* SpecFn: a Functional handle and its caller *)

\* the states a caller may hand to apply: any values for the Variables of the class
StatesOf(cls) ==
  CASE cls = "Linear" -> {[n \in {"kernel"} |-> [type |-> "Param", value |-> v]] : v \in Values}
    [] cls = "Cache" ->
         {[n \in {"kernel"} |-> [type |-> "Param", value |-> v]] : v \in Values}
         \cup {[n \in {"kernel", "cache"} |->
                  IF n = "kernel" THEN [type |-> "Param", value |-> v]
                  ELSE [type |-> "Cache", value |-> v]] : v \in Values}
    [] cls = "BatchNorm" ->
         {[n \in {"scale", "mean"} |->
             IF n = "scale" THEN [type |-> "Param", value |-> 1]
             ELSE [type |-> "BatchStat", value |-> v]] : v \in Values}
         \cup {[n \in {"scale"} |-> [type |-> "Param", value |-> 1]]}

\* the positional construction arguments given to functional(cls)(...)
FnArgs == {0, 1, 2}

FnInit ==
  /\ \E cls \in NNXClasses, args \in FnArgs : handle = functional(cls, args, EmptyFn)
  /\ lastFn = NoFn

\* state = handle.init(rngs=...)
FnInitCall(rngs) ==
  /\ \E r \in {FunctionalInit(handle, rngs # EmptyFn, rngs)} :
       /\ handle' = r.handle
       /\ lastFn' = [NoFn EXCEPT !.op = "init", !.raised = r.raised, !.rngs = rngs,
                                 !.returned = r.state]
  /\ UNCHANGED <<nnxVars, linenVars>>

\* out = handle.apply(state)
FnApplyCall(state, x) ==
  /\ \E r \in {FunctionalApply(handle, state, x)} :
       /\ handle' = r.handle
       /\ lastFn' = [NoFn EXCEPT !.op = "apply", !.raised = r.raised, !.state = state,
                                 !.x = x, !.out = r.out]
  /\ UNCHANGED <<nnxVars, linenVars>>

FnNext ==
  \/ \E rngs \in InitRngs : FnInitCall(rngs)
  \/ \E state \in StatesOf(handle.module_type), x \in Inputs : FnApplyCall(state, x)

InitSpecFn == FnInit /\ NNXIdle /\ LinenIdle
SpecFn == InitSpecFn /\ [][FnNext]_allVars

-----------------------------------------------------------------------------
(* Claims about the ToNNX adapter *)

\* C1: after lazy_init(x) has returned normally, a plain call with the same x hands
\* m.apply exactly the variable tree that m.init_with_output produced (same collections,
\* same leaves), so its output is m.apply's output on that tree.
C1_LazyInitThenCall ==
  (lastOp = "call" /\ lastCall.afterInit /\ ~lastCall.a.mutable.req) =>
    /\ lastCall.path = "apply"
    /\ lastCall.passedVars = lastCall.initVars
    /\ lastCall.raised = "none"
    /\ lastCall.out = LinenApply(linenModule, lastCall.initVars, lastCall.a.x,
                                 lastCall.passedRngs, NoMutable).y

C1_Witness ==
  /\ lastOp = "call" /\ lastCall.afterInit /\ ~lastCall.a.mutable.req
  /\ DOMAIN lastCall.initVars = {"params", "batch_stats"}
  /\ lastCall.out # NoOut

\* C2 as stated: the first invocation on an instance initializes, every later one applies.
C2_FirstCallInitializes ==
  (lastCall.path # "none") =>
    /\ lastCall.first => lastCall.path = "init"
    /\ ~lastCall.first => lastCall.path = "apply"

\* C2 amended: an invocation made by lazy_init (flag true) runs init_with_output and, when
\* that succeeds, stores the collections as attributes and records their names; an
\* invocation made outside lazy_init (flag false), the first one included, runs apply on the
\* variable tree rebuilt from the stored attributes of the recorded collections.
C2_PhaseFollowsFlag ==
  (lastCall.path # "none") =>
    /\ lastCall.viaLazy =>
         /\ lastCall.path = "init"
         /\ lastLazy.stored =>
              /\ DOMAIN lastLazy.variables \subseteq nnx.linen_collections
              /\ \A c \in DOMAIN lastLazy.variables :
                   nnx.attrs[c] = WrapTree(c, lastLazy.variables[c])
    /\ ~lastCall.viaLazy =>
         /\ lastCall.path = "apply"
         /\ DOMAIN lastCall.passedVars = nnx.linen_collections
         /\ \A c \in (DOMAIN lastCall.passedVars) \ (DOMAIN lastCall.updates) :
              lastCall.passedVars[c] = UnwrapTree(nnx.attrs[c])

C2_Witness ==
  /\ lastOp = "call" /\ lastCall.first /\ lastCall.path = "apply"

\* C3: when lazy_init has finished, normally or by raising, no object carries a true
\* initializing flag, and a failure of the wrapped call has been propagated.
C3_FlagAlwaysReset ==
  /\ nnx.initializing = {}
  /\ (lastOp = "lazy_init" /\ lastCall.raised # "none") =>
       (lastLazy.raised = lastCall.raised /\ lastLazy.ret = NoValue)

C3_Witness ==
  /\ lastOp = "lazy_init" /\ lastLazy.raised = "MissingRngError"
  /\ lastLazy.root = Parent
  /\ nnx.initializing = {}

\* C4 as stated: lazy_init returns what the wrapped call returned.
C4_ReturnsCallResult ==
  (lastOp = "lazy_init" /\ lastLazy.raised = "none") =>
    lastLazy.ret = OutValue(lastLazy.callOut)

\* C4 amended: lazy_init returns fn itself (the module or bound method it was given); the
\* value of the wrapped call is discarded.
C4_ReturnsFn ==
  (lastOp = "lazy_init" /\ lastLazy.raised = "none") =>
    lastLazy.ret = FnValue(lastLazy.root)

C4_Witness ==
  /\ lastOp = "lazy_init" /\ lastLazy.raised = "none" /\ lastLazy.callOut # NoOut

\* C5: in an initializing call the mapping given to init is the bundle's name -> key
\* mapping, except that "default" is moved to "params" (same key) when "params" is absent
\* and "default" is present.
C5_RenameDefault ==
  (lastCall.path = "init") =>
    LET names == bundleNames[lastCall.bundle]
        passed == lastCall.passedRngs
    IN IF "params" \notin names /\ "default" \in names
       THEN /\ DOMAIN passed = (names \ {"default"}) \cup {"params"}
            /\ passed["params"] = StreamKey(lastCall.bundle, "default")
            /\ \A n \in names \ {"default"} : passed[n] = StreamKey(lastCall.bundle, n)
       ELSE /\ DOMAIN passed = names
            /\ \A n \in names : passed[n] = StreamKey(lastCall.bundle, n)

C5_Witness ==
  /\ lastCall.path = "init" /\ lastCall.bundle = "ext"
  /\ DOMAIN lastCall.passedRngs = {"params", "dropout"}

\* C6: a mutable-collection call on the apply path leaves, in the attribute of every
\* collection of the update mapping, the values the Linen apply returned (as Variables of
\* that collection's type), leaves every other attribute as it was, and returns the output.
C6_WriteBack ==
  [][ (lastOp' = "call" /\ lastCall'.path = "apply" /\ lastCall'.a.mutable.req
         /\ lastCall'.raised = "none") =>
      LET res == LinenApply(linenModule, lastCall'.passedVars, lastCall'.a.x,
                            lastCall'.passedRngs, lastCall'.a.mutable)
      IN /\ DOMAIN nnx'.attrs = (DOMAIN nnx.attrs) \cup (DOMAIN res.updates)
         /\ \A c \in DOMAIN res.updates : nnx'.attrs[c] = WrapTree(c, res.updates[c])
         /\ \A c \in (DOMAIN nnx.attrs) \ (DOMAIN res.updates) : nnx'.attrs[c] = nnx.attrs[c]
         /\ lastCall'.out = res.y
    ]_allVars

C6_Witness ==
  /\ lastOp = "call" /\ lastCall.path = "apply" /\ lastCall.a.mutable.req
  /\ lastCall.raised = "none"
  /\ "batch_stats" \in DOMAIN lastCall.updates
  /\ nnx.attrs["batch_stats"]["mean"].value # lastCall.passedVars["batch_stats"]["mean"]

-----------------------------------------------------------------------------
(* Claims about the ToLinen adapter *)

\* C7: after a capture by update_variables with every collection writable, merging the
\* stored graph definition with the stored non-"nnx" collections rebuilds a module whose
\* capture is identical: same graph definition, same state, same stored collections.
C7_CaptureRoundTrip ==
  (lastLinen.wrote /\ lastLinen.mutable = LinenCols) =>
    LET g == get_graphdef(scopeVars)
        m == merge(g.gdef, CombinedState(scopeVars))
    IN /\ g.raised = "none"
       /\ m.raised = "none"
       /\ split(m.module) = split(lastLinen.captured)
       /\ \A typ \in VariableTypes :
            StateOfType(m.module, typ) = StateOfType(lastLinen.captured, typ)
       /\ update_variables(scopeVars, LinenCols, m.module) = scopeVars

C7_Witness ==
  /\ lastLinen.wrote /\ lastLinen.mutable = LinenCols /\ lastLinen.op = "apply"
  /\ lastLinen.captured.cls = "BatchNorm"
  /\ lastLinen.captured.vars["mean"].value # 0

\* C8: update_variables is idempotent on an unmodified module: running it again on the
\* module just captured, with the same writable collections, leaves the same collection
\* names and the same value under every (collection, name).
C8_UpdateIdempotent ==
  lastLinen.wrote =>
    LET again == update_variables(scopeVars, lastLinen.mutable, lastLinen.captured)
    IN /\ DOMAIN again = DOMAIN scopeVars
       /\ \A col \in DOMAIN scopeVars :
            /\ DOMAIN again[col] = DOMAIN scopeVars[col]
            /\ \A name \in DOMAIN scopeVars[col] : again[col][name] = scopeVars[col][name]

C8_Witness ==
  /\ lastLinen.wrote /\ lastLinen.op = "apply"
  /\ lastLinen.mutable = {"batch_stats", "cache"}
  /\ "cache" \in DOMAIN lastLinen.captured.vars
  /\ "cache" \in DOMAIN scopeVars

\* C9: an apply-path call with no graph definition stored under "nnx" is rejected with
\* MissingGraphDefError; no module is reconstructed or invoked, no collection is written.
C9_MissingGraphDef ==
  [][ (lastLinen'.op = "apply" /\ lastLinen' # lastLinen
         /\ ~("nnx" \in DOMAIN scopeVars /\ "graphdef" \in DOMAIN scopeVars["nnx"])) =>
      /\ lastLinen'.raised = "MissingGraphDefError"
      /\ ~lastLinen'.merged /\ ~lastLinen'.invoked /\ ~lastLinen'.wrote
      /\ scopeVars' = scopeVars
    ]_allVars

C9_Witness ==
  /\ lastLinen.op = "apply" /\ lastLinen.raised = "MissingGraphDefError"
  /\ "params" \in DOMAIN scopeVars

-----------------------------------------------------------------------------
(* Claims about the Functional handle *)

\* C10: apply on a handle on which init was never called fails with NotInitializedError
\* and leaves the handle (module class, graph definition = none, args, kwargs) unchanged.
C10_ApplyBeforeInit ==
  [][ (lastFn'.op = "apply" /\ handle.graphdef = NoGraphDef) =>
        /\ lastFn'.raised = "NotInitializedError"
        /\ lastFn'.out = NoOut
        /\ handle' = handle
        /\ handle'.graphdef = NoGraphDef
    ]_allVars

C10_Witness ==
  /\ lastFn.op = "apply" /\ lastFn.raised = "NotInitializedError"
  /\ handle.graphdef = NoGraphDef /\ handle.module_type = "BatchNorm"

\* the module built by direct construction with the handle's arguments, its Variables then
\* set to the values of `state`
DirectModule(h, state) ==
  LET R == CHOOSE r \in InitRngs : Construct(h.module_type, h.args, r # EmptyFn, r).raised = "none"
      m == Construct(h.module_type, h.args, R # EmptyFn, R).module
  IN [m EXCEPT !.vars = [n \in DOMAIN m.vars |-> [type |-> m.vars[n].type, value |-> state[n].value]]]

\* C11: init constructs the module from the handle's args (rngs given to the constructor
\* only when supplied), keeps the graph definition on the handle, returns the state and
\* leaves module class, args and kwargs alone; an apply after a successful init returns
\* what the directly constructed module returns once it holds the given state.
C11_InitThenApply ==
  [][ /\ (lastFn'.op = "init" /\ lastFn' # lastFn) =>
           LET c == Construct(handle.module_type, handle.args, lastFn'.rngs # EmptyFn, lastFn'.rngs)
           IN /\ lastFn'.raised = c.raised
              /\ handle'.module_type = handle.module_type
              /\ handle'.args = handle.args /\ handle'.kwargs = handle.kwargs
              /\ (c.raised = "none") =>
                   /\ handle'.graphdef = split(c.module).gdef
                   /\ lastFn'.returned = split(c.module).state
              /\ (c.raised # "none") => handle'.graphdef = handle.graphdef
      /\ (lastFn'.op = "apply" /\ lastFn' # lastFn /\ handle.graphdef # NoGraphDef
            /\ DOMAIN handle.graphdef.types \subseteq DOMAIN lastFn'.state) =>
           /\ lastFn'.raised = "none"
           /\ lastFn'.out = ModuleCall(DirectModule(handle, lastFn'.state), lastFn'.x).out
           /\ handle' = handle
    ]_allVars

C11_Witness ==
  /\ lastFn.op = "apply" /\ lastFn.raised = "none" /\ lastFn.out # NoOut
  /\ handle.module_type = "Cache" /\ handle.graphdef # NoGraphDef
  /\ "cache" \in DOMAIN lastFn.state

-----------------------------------------------------------------------------
(* Further claims about the ToLinen adapter *)

\* C12 as stated: in every apply-path call that reaches the module, each pseudo-random
\* stream of the reconstructed module has been re-associated, before the module runs, with
\* the value sourced from the current call's bundle under the stream's name; none runs on
\* the key and count that were stored.
C12_EveryStreamReseeded ==
  (lastLinen.op = "apply" /\ lastLinen.invoked) =>
    \A n \in ModuleStreams(lastLinen.ran) :
      /\ n \in DOMAIN lastLinen.rngs
      /\ lastLinen.ran.vars["key"].value = linen_rngs_dict(lastLinen.rngs)[n]
      /\ lastLinen.ran.vars["count"].value = 0

\* the failing case of C12: the call's bundle has no "dropout" stream, and the module runs
\* on exactly the stream state that was stored
C12_Witness ==
  /\ lastLinen.op = "apply" /\ lastLinen.invoked
  /\ ModuleStreams(lastLinen.ran) = {"dropout"}
  /\ "dropout" \notin DOMAIN lastLinen.rngs
  /\ lastLinen.ran = lastLinen.rebuilt

\* C13: a call in which update_variables ran raised nothing and wrote only into writable
\* collections: the graph definition is under "nnx" iff "nnx" is writable (else "nnx" is
\* as before), a writable collection holds every Variable of its type of the captured
\* module, and every read-only collection is exactly as it was before the call.
C13_OnlyWritable ==
  [][ lastLinen'.wrote =>
        LET pre == IF lastLinen'.op = "init" THEN EmptyFn ELSE scopeVars
            mutable == lastLinen'.mutable
            module == lastLinen'.captured
        IN /\ lastLinen'.raised = "none"
           /\ \A col \in LinenCols \ mutable :
                /\ (col \in DOMAIN scopeVars') = (col \in DOMAIN pre)
                /\ col \in DOMAIN pre => scopeVars'[col] = pre[col]
           /\ "nnx" \in mutable => scopeVars'["nnx"]["graphdef"] = split(module).gdef
           /\ \A typ \in VariableTypes :
                LET col == variable_type_name(typ)
                    state == StateOfType(module, typ)
                IN (col \in mutable /\ state # EmptyFn) =>
                     \A k \in DOMAIN state : scopeVars'[col][k] = state[k]
    ]_allVars

\* a Variable changed during the call and its read-only collection kept the old value
C13_Witness ==
  /\ lastLinen.op = "apply" /\ lastLinen.wrote /\ lastLinen.mutable = {"nnx"}
  /\ lastLinen.captured.cls = "BatchNorm"
  /\ scopeVars["batch_stats"]["mean"] # lastLinen.captured.vars["mean"]

-----------------------------------------------------------------------------
(* Further claims about the ToNNX adapter *)

\* the nodes reachable from the nodes of S through ownership edges
RECURSIVE ReachableFrom(_, _)
ReachableFrom(st, S) ==
  LET T == S \cup UNION {Children(st, n) : n \in S}
  IN IF T = S THEN S ELSE ReachableFrom(st, T)

\* C14: while lazy_init(root) runs its call, exactly the Objects reachable from root carry
\* a true initializing flag (values without call-phase state and Objects outside the graph
\* of root are not flagged); the walk yields each Object once, a stream bundle owned by both
\* the parent and the adapter included; after the closing pass with False none of the
\* reachable Objects is flagged.
C14_SetInitializing ==
  (lastOp = "lazy_init") =>
    LET reach == {n \in ReachableFrom(nnx, {lastLazy.root}) : IsObject(n)}
        walk == lastLazy.walk
    IN /\ lastLazy.during = reach
       /\ {walk[i] : i \in DOMAIN walk} = reach
       /\ \A i, j \in DOMAIN walk : walk[i] = walk[j] => i = j
       /\ nnx.initializing \cap reach = {}

\* the stream bundle is owned by the parent and by the adapter, and both were flagged
C14_Witness ==
  /\ lastOp = "lazy_init" /\ lastLazy.root = Parent
  /\ RngsNode \in Children(nnx, Parent) /\ RngsNode \in Children(nnx, Self)
  /\ {Parent, Self, RngsNode} \subseteq lastLazy.during
  /\ nnx.attrs # EmptyFn

\* C15: an initializing call with no stream available (none passed to the call, none
\* given at construction) on a wrapped module whose initialization needs one fails with
\* MissingRngError, which lazy_init propagates, and stores and records no collection.
C15_InitWithoutRngs ==
  [][ (lastOp' = "lazy_init" /\ lastCall'.a.rngs = "none" /\ bundleNames["self"] = {}
         /\ InitCols(linenModule) # {}) =>
        /\ lastCall'.path = "init"
        /\ lastCall'.passedRngs = EmptyFn
        /\ lastCall'.raised = "MissingRngError"
        /\ lastLazy'.raised = "MissingRngError"
        /\ nnx'.attrs = nnx.attrs
        /\ nnx'.linen_collections = nnx.linen_collections
    ]_allVars

\* the failing call came after an initialization that was given the caller's bundle
C15_Witness ==
  /\ lastOp = "lazy_init" /\ lastCall.a.rngs = "none" /\ bundleNames["self"] = {}
  /\ linenModule = "Norm"
  /\ lastCall.raised = "MissingRngError"
  /\ nnx.linen_collections = {"params", "batch_stats"}

\* the Variables of `module` whose collection is in `mutable` are stored with its values
StoredFrom(vs, mutable, module) ==
  \A k \in DOMAIN module.vars :
    LET col == variable_type_name(module.vars[k].type)
    IN col \in mutable => (col \in DOMAIN vs /\ k \in DOMAIN vs[col] /\ vs[col][k] = module.vars[k])

C17_RecordedEqualsStored ==
  /\ nnx.linen_collections = DOMAIN nnx.attrs
  /\ (lastCall.path = "apply" /\ lastCall.raised = "none") =>
       (DOMAIN nnx.attrs) \ (DOMAIN lastCall.updates) \subseteq DOMAIN lastCall.passedVars

\* the failing case of C17: a collection written back by an earlier mutable-collection call
\* is held as an attribute, is not recorded, and was not handed to the apply just made
C17_Witness ==
  /\ lastOp = "call" /\ lastCall.path = "apply" /\ lastCall.raised = "none"
  /\ ~lastCall.a.mutable.req
  /\ "intermediates" \in DOMAIN nnx.attrs
  /\ "intermediates" \notin nnx.linen_collections
  /\ "intermediates" \notin DOMAIN lastCall.passedVars

\* C18 as stated: a call made while the initializing flag is true, whose init_with_output
\* succeeded, returns the output of init_with_output as a whole and attempts no split of
\* it, also when `mutable` is passed.
C18_NoSplitWhenInitializing ==
  (lastCall.path = "init") =>
    LET res == LinenInitWithOutput(linenModule, lastCall.passedRngs, lastCall.a.x, lastCall.a.mutable)
    IN (res.raised = "none") =>
         /\ lastCall.raised = "none"
         /\ lastCall.out = res.y

\* the failing case of C18: init_with_output succeeded, and the call fails unpacking its
\* output because `mutable` was passed
C18_Witness ==
  /\ lastOp = "lazy_init" /\ lastCall.path = "init" /\ lastCall.a.mutable.req
  /\ lastCall.raised = "UnpackError" /\ lastLazy.raised = "UnpackError"
  /\ lastLazy.stored

\* C19 as stated: whenever a graph definition is stored, it and the other collections
\* describe the same Variable paths, each under the collection of its type, and after a
\* call that captured the module the merge of what is stored gives that module back.
C19_GraphDefMatchesCollections ==
  LET g == get_graphdef(scopeVars)
      cols == (DOMAIN scopeVars) \ {"nnx"}
  IN (g.raised = "none") =>
       /\ UNION {DOMAIN scopeVars[c] : c \in cols} = DOMAIN g.gdef.types
       /\ \A c \in cols : \A k \in DOMAIN scopeVars[c] :
             variable_type_name(g.gdef.types[k]) = c
       /\ lastLinen.wrote =>
            merge(g.gdef, CombinedState(scopeVars)).module = lastLinen.captured

\* the failing case of C19: with every collection writable, the module removed a Variable
\* during the apply call; the stored graph definition no longer has it, its collection does
C19_Witness ==
  /\ lastLinen.op = "apply" /\ lastLinen.wrote /\ lastLinen.mutable = LinenCols
  /\ "cache" \notin DOMAIN scopeVars["nnx"]["graphdef"].types
  /\ "cache" \in DOMAIN scopeVars /\ "cache" \in DOMAIN scopeVars["cache"]

====
